---- MODULE Spec2Model ----
(***************************************************************************)
(* A model of evaluation/evaluation.py: the clipped n-gram precision       *)
(* (modified_precision), its log-space combination (modified_bleu), the    *)
(* memoized information value (get_information_value) and the file-level   *)
(* entry point (evaluate_nlg) with the module globals info_value and       *)
(* reference_data.                                                         *)
(*                                                                         *)
(* Python values are modelled as follows.                                  *)
(*   str        a sequence of one-character strings                        *)
(*   list       a sequence                                                 *)
(*   dict       a function whose DOMAIN is the set of keys                 *)
(*   Fraction   [numerator, denominator], in lowest terms as               *)
(*              fractions.Fraction keeps it                                *)
(*   a call     [kind |-> "ok", value |-> v] when it returns v,            *)
(*              [kind |-> "raise", err |-> e] when it raises e             *)
(***************************************************************************)
EXTENDS Integers, Sequences, FiniteSets, TLC

VARIABLES info_value, reference_data, references, hypothesis, call

vars == <<info_value, reference_data, references, hypothesis, call>>

---------------------------------------------------------------------------
(* Bounds of the model. *)

\* Longest hypothesis / reference segment, in tokens.
MaxLen == 2

\* The numbers of reference segments in one call.
RefCounts == {0, 1, 2}

\* The words hypotheses and references are made of.
A == <<"a">>
B == <<"b">>
Tokens == {A, B}

\* A word that is in no reference.
C == <<"c">>

---------------------------------------------------------------------------
(* Python built-ins the module uses. *)

Max(x, y) == IF x >= y THEN x ELSE y

Min(x, y) == IF x <= y THEN x ELSE y

Range(s) == {s[i] : i \in DOMAIN s}

RECURSIVE Gcd(_, _)
Gcd(x, y) == IF y = 0 THEN x ELSE Gcd(y, x % y)

RECURSIVE Pow(_, _)
Pow(b, e) == IF e = 0 THEN 1 ELSE b * Pow(b, e - 1)

\* sum(d.values())
RECURSIVE SumValues(_)
SumValues(d) ==
    IF DOMAIN d = {} THEN 0
    ELSE LET k == CHOOSE x \in DOMAIN d : TRUE
         IN d[k] + SumValues([x \in DOMAIN d \ {k} |-> d[x]])

Return(v) == [kind |-> "ok", value |-> v]

Raise(e) == [kind |-> "raise", err |-> e]

\* fractions.Fraction(numerator, denominator): reduced to lowest terms.
Fraction(numerator, denominator) ==
    IF denominator = 0 THEN Raise("ZeroDivisionError")
    ELSE LET g == Gcd(numerator, denominator)
         IN Return([numerator |-> numerator \div g,
                    denominator |-> denominator \div g])

\* nltk.util.ngrams(sequence, n): every contiguous window of n items.
ngrams(sequence, n) ==
    [i \in 1..(Len(sequence) - n + 1) |-> SubSeq(sequence, i, i + n - 1)]

\* collections.Counter(iterable)
Counter(items) ==
    [g \in Range(items) |-> Cardinality({i \in DOMAIN items : items[i] = g})]

\* Counter.__getitem__: a missing key counts 0.  Also dict.get(key, 0).
CounterGet(c, g) == IF g \in DOMAIN c THEN c[g] ELSE 0

---------------------------------------------------------------------------
(* modified_precision *)

\* A faulty variant of UpdateMaxCounts: the last reference's count replaces the
\* maximum so far.
UpdateMaxCountsLast(max_counts, counts, reference_counts) ==
    [g \in DOMAIN max_counts \cup DOMAIN counts |->
        IF g \in DOMAIN counts THEN CounterGet(reference_counts, g)
        ELSE max_counts[g]]

\* Lines 139-141, one reference: for every n-gram of the hypothesis,
\* max_counts[ngram] = max(max_counts.get(ngram, 0), reference_counts[ngram]).
UpdateMaxCounts(max_counts, counts, reference_counts) ==
    [g \in DOMAIN max_counts \cup DOMAIN counts |->
        IF g \in DOMAIN counts
        THEN Max(CounterGet(max_counts, g), CounterGet(reference_counts, g))
        ELSE max_counts[g]]

\* The loop over the references, from reference i on.
RECURSIVE MaxCountsLoop(_, _, _, _, _)
MaxCountsLoop(refs, counts, n, i, max_counts) ==
    IF i > Len(refs) THEN max_counts
    ELSE LET reference == refs[i]
             reference_counts ==
                 IF Len(reference) >= n THEN Counter(ngrams(reference, n))
                 ELSE <<>>
         IN MaxCountsLoop(refs, counts, n, i + 1,
                UpdateMaxCounts(max_counts, counts, reference_counts))

\* A faulty variant of Denominator: no floor of 1.
DenominatorNoFloor(counts) == SumValues(counts)

\* max(1, sum(counts.values()))
Denominator(counts) == Max(1, SumValues(counts))

\* A faulty variant of Clip: the larger count, nothing is clipped.
ClipNone(count, max_count) == Max(count, max_count)

\* min(count, max_counts[ngram])
Clip(count, max_count) == Min(count, max_count)

modified_precision(refs, hyp, n) ==
    LET counts == IF Len(hyp) >= n THEN Counter(ngrams(hyp, n)) ELSE <<>>
        max_counts == MaxCountsLoop(refs, counts, n, 1, <<>>)
    IN IF \E g \in DOMAIN counts : g \notin DOMAIN max_counts
       THEN Raise("KeyError")
       ELSE LET clipped_counts ==
                    [g \in DOMAIN counts |-> Clip(counts[g], max_counts[g])]
                numerator == SumValues(clipped_counts)
                denominator == Denominator(counts)
            IN Fraction(numerator, denominator)

---------------------------------------------------------------------------
(* modified_bleu *)

\* A weight w of the code is the integer w * WeightDen here (0.25 is 1).
WeightDen == 4

\* (0.25, 0.25, 0.25, 0.25), the default of the weights parameter.
DefaultWeights == <<1, 1, 1, 1>>

\* A score x is held as the exact fraction x ^ WeightDen, so that
\* exp(fsum(w_i * log(p_i))) = prod(p_i ^ w_i) is held as
\* prod(p_i ^ (w_i * WeightDen)).  logs and exps count the calls of math.log
\* and math.exp made on the way.
Score(numerator, denominator, logs, exps) ==
    LET g == Gcd(numerator, denominator)
    IN [kind |-> "ok",
        value |-> [numerator |-> numerator \div g,
                   denominator |-> denominator \div g],
        logs |-> logs, exps |-> exps]

\* A faulty variant of Kept: no position is skipped.
KeptAll(weights, p_n) == 1..Len(weights)

\* The generator of line 110: position i (from 0) pairs weights[i] with
\* p_n[i] and is kept when p_n[i].numerator != 0.
Kept(weights, p_n) == {i \in 1..Len(weights) : p_n[i].numerator # 0}

\* math.exp(math.fsum(w * math.log(p_i) ...)) over the kept positions.
RECURSIVE ExpFsum(_, _, _, _, _)
ExpFsum(weights, p_n, kept, num, den) ==
    IF kept = {} THEN <<num, den>>
    ELSE LET i == CHOOSE x \in kept : TRUE
         IN ExpFsum(weights, p_n, kept \ {i},
                    num * Pow(p_n[i].numerator, weights[i]),
                    den * Pow(p_n[i].denominator, weights[i]))

modified_bleu(refs, hyp, weights) ==
    LET orders == 1..Len(weights)
        p == [i \in orders |-> modified_precision(refs, hyp, i)]
        raising == {i \in orders : p[i].kind = "raise"}
    IN IF raising # {}
       THEN p[CHOOSE i \in raising : \A j \in raising : i <= j]
       ELSE LET p_numerators == [i \in orders |-> p[i].value.numerator]
                p_denominators == [i \in orders |-> p[i].value.denominator]
                p_n == [i \in orders |->
                           Fraction(p_numerators[i], p_denominators[i]).value]
            IN IF CounterGet(p_numerators, 1) = 0
               THEN Score(0, 1, 0, 0)
               ELSE LET kept == Kept(weights, p_n)
                        e == ExpFsum(weights, p_n, kept, 1, 1)
                    IN Score(e[1], e[2], Cardinality(kept), 1)

---------------------------------------------------------------------------
(* Calls of the two scoring functions on fixed arguments. *)

TokenSeqs == UNION {[1..k -> Tokens] : k \in 0..MaxLen}

RefLists == UNION {[1..k -> TokenSeqs] : k \in RefCounts}

\* The n-gram orders asked of modified_precision: up to one more than the
\* longest hypothesis.
Orders == 1..(MaxLen + 1)

\* The weight vectors passed to modified_bleu: none, unigram only (1.0,),
\* (0.25, 0.75) and the default.
WeightVectors == {<<>>, <<4>>, <<1, 3>>, DefaultWeights}

NoCall == [op |-> "none"]

InitScore ==
    /\ info_value = <<>>
    /\ reference_data = [kind |-> "None"]
    /\ references \in RefLists
    /\ hypothesis \in TokenSeqs
    /\ call = NoCall

ModifiedPrecision(n) ==
    /\ call' = [op |-> "modified_precision", n |-> n,
                ret |-> modified_precision(references, hypothesis, n)]
    /\ UNCHANGED <<info_value, reference_data, references, hypothesis>>

ModifiedBleu(weights) ==
    /\ call' = [op |-> "modified_bleu", weights |-> weights,
                ret |-> modified_bleu(references, hypothesis, weights)]
    /\ UNCHANGED <<info_value, reference_data, references, hypothesis>>

NextScore ==
    \/ \E n \in Orders : ModifiedPrecision(n)
    \/ \E weights \in WeightVectors : ModifiedBleu(weights)

SpecScore == InitScore /\ [][NextScore]_vars

---------------------------------------------------------------------------
(* Strings: str.count, str.split, str.join, pre_process. *)

Space == " "

\* A character outside ASCII, such as U+00E9.
NonAscii == "U+00E9"

Whitespace == {Space, "\n", "\r", "\t"}

\* s.count(sub): the non-overlapping occurrences of sub in s from index i
\* on; the empty string is found len(s) + 1 times.
RECURSIVE StrCountFrom(_, _, _)
StrCountFrom(s, sub, i) ==
    IF sub = <<>> THEN Len(s) + 1
    ELSE IF i + Len(sub) - 1 > Len(s) THEN 0
    ELSE IF SubSeq(s, i, i + Len(sub) - 1) = sub
         THEN 1 + StrCountFrom(s, sub, i + Len(sub))
         ELSE StrCountFrom(s, sub, i + 1)

\* ' '.join(words)
RECURSIVE Join(_)
Join(words) ==
    IF words = <<>> THEN <<>>
    ELSE IF Len(words) = 1 THEN words[1]
    ELSE words[1] \o <<Space>> \o Join(Tail(words))

\* s.split(): the maximal runs of non-whitespace characters of s.
RECURSIVE SplitFrom(_, _, _, _)
SplitFrom(s, i, word, acc) ==
    IF i > Len(s) THEN (IF word = <<>> THEN acc ELSE Append(acc, word))
    ELSE IF s[i] \in Whitespace
         THEN SplitFrom(s, i + 1, <<>>,
                        IF word = <<>> THEN acc ELSE Append(acc, word))
         ELSE SplitFrom(s, i + 1, Append(word, s[i]), acc)

Split(s) == SplitFrom(s, 1, <<>>, <<>>)

\* c.lower()
Lower(c) == CASE c = "A" -> "a" [] c = "B" -> "b" [] OTHER -> c

\* text.encode('ascii', errors='ignore'): the non-ASCII characters go.
EncodeAscii(text) == SelectSeq(text, LAMBDA c : c # NonAscii)

pre_process(str_text) ==
    LET lowered == [i \in DOMAIN str_text |-> Lower(str_text[i])]
        replaced == [i \in DOMAIN lowered |->
                        IF lowered[i] \in {"\n", "\r"} THEN Space
                        ELSE lowered[i]]
    IN Join(Split(replaced))

---------------------------------------------------------------------------
(* get_information_value and the module globals. *)

None == [kind |-> "None"]

\* reference_data.count(x), x a str: substrings of a str; equal items of a
\* list of words; nothing in a list of lists, which holds no str.
PyCount(data, x) ==
    CASE data.kind = "str" -> StrCountFrom(data.value, x, 1)
      [] data.kind = "words" ->
            Cardinality({i \in DOMAIN data.value : data.value[i] = x})
      [] data.kind = "segments" -> 0

\* np.log2(k1 / k2) with k1 = 0.1 + c1 and k2 = 0.1 + c2, held as the exact
\* fraction k1 / k2 whose logarithm it is: positive when numerator >
\* denominator, zero when they are equal, negative otherwise.
Log2Ratio(c1, c2) ==
    LET g == Gcd(10 * c1 + 1, 10 * c2 + 1)
    IN [numerator |-> (10 * c1 + 1) \div g,
        denominator |-> (10 * c2 + 1) \div g]

\* Lines 66-68: k1 counts the joined n-gram, k2 the joined (n-1)-gram.
InfoCount(data, words_k1, words_k2) ==
    Log2Ratio(PyCount(data, words_k1), PyCount(data, words_k2))

\* A faulty variant of get_information_value: the cache is read before the test
\* of reference_data.
get_information_value_cache_first(data, cache, words) ==
    LET words_k1 == Join(words)
        words_k2 == Join(SubSeq(words, 1, Len(words) - 1))
    IN IF words_k1 \in DOMAIN cache
       THEN <<Return(cache[words_k1]), cache>>
       ELSE IF data = None THEN <<Raise("ValueError"), cache>>
       ELSE LET info_count == InfoCount(data, words_k1, words_k2)
            IN <<Return(info_count),
                 [k \in DOMAIN cache \cup {words_k1} |->
                     IF k = words_k1 THEN info_count ELSE cache[k]]>>

\* A faulty variant of get_information_value: the value is computed and stored
\* anew at every lookup.
get_information_value_recompute(data, cache, words) ==
    IF data = None THEN <<Raise("ValueError"), cache>>
    ELSE LET words_k1 == Join(words)
             words_k2 == Join(SubSeq(words, 1, Len(words) - 1))
             info_count == InfoCount(data, words_k1, words_k2)
         IN <<Return(info_count),
              [k \in DOMAIN cache \cup {words_k1} |->
                  IF k = words_k1 THEN info_count ELSE cache[k]]>>

\* get_information_value(words): <<the call's outcome, info_value after>>.
get_information_value(data, cache, words) ==
    IF data = None THEN <<Raise("ValueError"), cache>>
    ELSE LET words_k1 == Join(words)
             words_k2 == Join(SubSeq(words, 1, Len(words) - 1))
         IN IF words_k1 \in DOMAIN cache
            THEN <<Return(cache[words_k1]), cache>>
            ELSE LET info_count == InfoCount(data, words_k1, words_k2)
                 IN <<Return(info_count),
                      [k \in DOMAIN cache \cup {words_k1} |->
                          IF k = words_k1 THEN info_count ELSE cache[k]]>>

---------------------------------------------------------------------------
(* evaluate_nlg *)

\* n = 1000, the characters of one reference segment.
ChunkSize == 1000

\* [data[i:i + n].split() for i in range(0, len(data), n)], from offset i.
RECURSIVE ChunksFrom(_, _, _)
ChunksFrom(data, i, n) ==
    IF i >= Len(data) THEN <<>>
    ELSE <<Split(SubSeq(data, i + 1, Min(i + n, Len(data))))>>
             \o ChunksFrom(data, i + n, n)

File(text) == [exists |-> TRUE, text |-> text]

NoFile == [exists |-> FALSE]

\* evaluate_nlg(evaluation_file, reference_file):
\* <<the call's outcome, reference_data after>>.
evaluate_nlg(data, evaluation_file, reference_file) ==
    IF ~evaluation_file.exists THEN <<Raise("IOError"), data>>
    ELSE IF ~reference_file.exists THEN <<Raise("IOError"), data>>
    ELSE LET evaluation_data ==
                 Split(pre_process(EncodeAscii(evaluation_file.text)))
             reference_text == pre_process(EncodeAscii(reference_file.text))
             segments == ChunksFrom(reference_text, 0, ChunkSize)
         IN <<modified_bleu(segments, evaluation_data, DefaultWeights),
              [kind |-> "segments", value |-> segments]>>

---------------------------------------------------------------------------
(* One evaluation session: the globals, and the calls made on them. *)

\* Most entries of the memo cache in a session.
MaxCache == 2

\* The n-grams looked up: of order 0, 1 and 2.
Lookups == {<<>>, <<A>>, <<B>>, <<C>>, <<A, B>>}

\* What a caller assigns to reference_data: nothing, the reference text, or
\* its list of words.
ReferenceWords == {<<A, B, A>>}

ReferenceValues ==
    {None} \cup {[kind |-> "str", value |-> Join(ws)] : ws \in ReferenceWords}
           \cup {[kind |-> "words", value |-> ws] : ws \in ReferenceWords}

\* The files evaluate_nlg is pointed at.
EvaluationFiles == {NoFile, File(<<"b", "\n", "B">>)}

ReferenceFiles ==
    {NoFile, File(<<>>),
     File(<<"A", Space, "b", "\n">>),
     File(<<NonAscii, "b", "\r", Space, "a">>)}

Init ==
    /\ info_value = <<>>
    /\ reference_data = None
    /\ references = <<<<A, B>>>>
    /\ hypothesis = <<B, B>>
    /\ call = NoCall

GetInformationValue(words) ==
    LET r == get_information_value(reference_data, info_value, words)
    IN /\ Cardinality(DOMAIN r[2]) <= MaxCache
       /\ call' = [op |-> "get_information_value", words |-> words,
                   ret |-> r[1]]
       /\ info_value' = r[2]
       /\ UNCHANGED <<reference_data, references, hypothesis>>

SetReferenceData(data) ==
    /\ reference_data' = data
    /\ call' = [op |-> "set_reference_data"]
    /\ UNCHANGED <<info_value, references, hypothesis>>

EvaluateNlg(evaluation_file, reference_file) ==
    LET r == evaluate_nlg(reference_data, evaluation_file, reference_file)
    IN /\ call' = [op |-> "evaluate_nlg", ret |-> r[1]]
       /\ reference_data' = r[2]
       /\ UNCHANGED <<info_value, references, hypothesis>>

Next ==
    \/ \E words \in Lookups : GetInformationValue(words)
    \/ \E data \in ReferenceValues : SetReferenceData(data)
    \/ \E evaluation_file \in EvaluationFiles, reference_file \in ReferenceFiles :
          EvaluateNlg(evaluation_file, reference_file)
    \/ \E n \in Orders : ModifiedPrecision(n)
    \/ \E weights \in WeightVectors : ModifiedBleu(weights)

Spec == Init /\ [][Next]_vars

---------------------------------------------------------------------------
(* The quantities the properties of the scoring functions are stated in,   *)
(* defined from the token sequences alone.                                 *)

\* The number of windows of hyp that hold an n-gram of order n.
NGramCount(seq, n) == Max(0, Len(seq) - n + 1)

\* The distinct n-grams of order n of seq.
Grams(seq, n) == {SubSeq(seq, i, i + n - 1) : i \in 1..(Len(seq) - n + 1)}

\* How often the n-gram g occurs in seq.
Occurrences(seq, g) ==
    Cardinality({i \in 1..(Len(seq) - Len(g) + 1) :
                    SubSeq(seq, i, i + Len(g) - 1) = g})

\* The most occurrences of g in one segment of refs, 0 when there is none.
MaxRefCount(refs, g) ==
    LET cs == {Occurrences(refs[j], g) : j \in DOMAIN refs} \cup {0}
    IN CHOOSE c \in cs : \A d \in cs : d <= c

RECURSIVE SumOver(_, _, _, _)
SumOver(gs, refs, hyp, acc) ==
    IF gs = {} THEN acc
    ELSE LET g == CHOOSE x \in gs : TRUE
         IN SumOver(gs \ {g}, refs, hyp,
                    acc + Min(Occurrences(hyp, g), MaxRefCount(refs, g)))

\* The sum of the clipped counts of the n-grams of order n of hyp.
ClippedTotal(refs, hyp, n) == SumOver(Grams(hyp, n), refs, hyp, 0)

\* The numerator total of order n that a call with these weights
\* accumulates: the orders 1..len(weights) are the ones evaluated, another
\* order's total stays 0.
NumeratorTotal(refs, hyp, weights, n) ==
    IF n \in 1..Len(weights) THEN ClippedTotal(refs, hyp, n) ELSE 0

\* seg and hyp have no n-gram of order n in common.
NoSharedGram(seg, hyp, n) == Grams(seg, n) \cap Grams(hyp, n) = {}

\* refs with seg put in after its first pos segments.
InsertAt(refs, pos, seg) ==
    SubSeq(refs, 1, pos) \o <<seg>> \o SubSeq(refs, pos + 1, Len(refs))

\* prod over the orders i of os of (ClippedTotal_i / max(1, NGramCount_i))
\* ^ weights[i], as <<numerator, denominator>>.
RECURSIVE PrecisionProduct(_, _, _, _)
PrecisionProduct(os, refs, hyp, weights) ==
    IF os = {} THEN <<1, 1>>
    ELSE LET i == CHOOSE x \in os : TRUE
             rest == PrecisionProduct(os \ {i}, refs, hyp, weights)
         IN <<rest[1] * Pow(ClippedTotal(refs, hyp, i), weights[i]),
              rest[2] * Pow(Max(1, NGramCount(hyp, i)), weights[i])>>

---------------------------------------------------------------------------
(* Properties of modified_precision and modified_bleu, under SpecScore.    *)

\* C1: when the hypothesis is identical to one of the reference segments
\* and has at least n tokens, modified_precision returns the pair (k, k),
\* k the number of n-grams of order n of the hypothesis.
C1_IdenticalHypothesisPair ==
    (/\ call.op = "modified_precision"
     /\ references # <<>>
     /\ hypothesis \in Range(references)
     /\ Len(hypothesis) >= call.n)
    => LET k == Max(1, NGramCount(hypothesis, call.n))
       IN call.ret = Return([numerator |-> k, denominator |-> k])

\* C2: with no reference segments modified_precision raises nothing and
\* returns numerator 0, whatever the hypothesis.
C2_NoReferencesZero ==
    (call.op = "modified_precision" /\ references = <<>>)
    => (call.ret.kind = "ok" /\ call.ret.value.numerator = 0)

\* C4: a fraction modified_precision returns has
\* 0 <= numerator <= denominator <= max(1, number of n-grams of hyp).
C4_FractionBounds ==
    (call.op = "modified_precision" /\ call.ret.kind = "ok")
    => /\ 0 <= call.ret.value.numerator
       /\ call.ret.value.numerator <= call.ret.value.denominator
       /\ call.ret.value.denominator
              <= Max(1, NGramCount(hypothesis, call.n))

\* A call where the clipping against several references left a proper
\* fraction.
C4_Witness ==
    /\ call.op = "modified_precision"
    /\ call.ret.kind = "ok"
    /\ Len(references) > 1
    /\ 0 < call.ret.value.numerator
    /\ call.ret.value.numerator < call.ret.value.denominator
    /\ \E g \in Grams(hypothesis, call.n) :
          Occurrences(hypothesis, g) > MaxRefCount(references, g)

\* C5: modified_bleu returns exactly 0, and calls neither math.log nor
\* math.exp, whenever the order-1 clipped numerator total is 0, for any
\* weights and any reference segments.
C5_ZeroUnigramScore ==
    (/\ call.op = "modified_bleu"
     /\ NumeratorTotal(references, hypothesis, call.weights, 1) = 0)
    => call.ret = Score(0, 1, 0, 0)

\* With C5: whenever modified_bleu returns at all, a zero order-1 total
\* gives exactly 0 with no math.log and no math.exp; the calls it does not
\* return from are the ones where modified_precision raises (C2).
ZeroUnigramScoreWhenReturned ==
    (/\ call.op = "modified_bleu"
     /\ NumeratorTotal(references, hypothesis, call.weights, 1) = 0)
    => \/ call.ret = Score(0, 1, 0, 0)
       \/ /\ call.ret = Raise("KeyError")
          /\ references = <<>>
          /\ hypothesis # <<>>

\* C6: when the order-1 numerator total is not 0, modified_bleu returns
\* the product, over exactly the orders of 1..len(weights) with a non-zero
\* numerator, of the order's precision to the power of the order's weight:
\* a positive score, one math.log per such order.
C6_SkipsZeroOrders ==
    (/\ call.op = "modified_bleu"
     /\ NumeratorTotal(references, hypothesis, call.weights, 1) # 0)
    => LET os == {i \in 1..Len(call.weights) :
                     ClippedTotal(references, hypothesis, i) # 0}
           e == PrecisionProduct(os, references, hypothesis, call.weights)
       IN /\ call.ret.kind = "ok"
          /\ call.ret.value.numerator * e[2]
                 = call.ret.value.denominator * e[1]
          /\ call.ret.value.numerator > 0
          /\ call.ret.logs = Cardinality(os)
          /\ call.ret.exps = 1

\* A score below 1 from weights over two orders or more, one of them with
\* no match at all.
C6_Witness ==
    /\ call.op = "modified_bleu"
    /\ call.ret.kind = "ok"
    /\ 0 < call.ret.value.numerator
    /\ call.ret.value.numerator < call.ret.value.denominator
    /\ \E i \in 2..Len(call.weights) :
          /\ call.weights[i] > 0
          /\ NGramCount(hypothesis, i) > 0
          /\ ClippedTotal(references, hypothesis, i) = 0

\* C7: with references not empty, putting in, at any position, one more
\* segment that shares no n-gram of an evaluated order with the hypothesis
\* changes neither a modified_precision fraction nor the modified_bleu
\* score.
C7_UnrelatedSegment ==
    references # <<>> =>
    \A seg \in TokenSeqs, pos \in 0..Len(references) :
        /\ (/\ call.op = "modified_precision"
            /\ NoSharedGram(seg, hypothesis, call.n))
           => modified_precision(InsertAt(references, pos, seg),
                                 hypothesis, call.n) = call.ret
        /\ (/\ call.op = "modified_bleu"
            /\ \A i \in 1..Len(call.weights) :
                  NoSharedGram(seg, hypothesis, i))
           => modified_bleu(InsertAt(references, pos, seg),
                            hypothesis, call.weights) = call.ret

\* A score that is not 0 over two orders or more, with a segment of other
\* words to put in.
C7_Witness ==
    /\ call.op = "modified_bleu"
    /\ Len(call.weights) > 1
    /\ references # <<>>
    /\ call.ret.kind = "ok"
    /\ call.ret.value.numerator # 0
    /\ \E seg \in TokenSeqs :
          /\ seg # <<>>
          /\ \A i \in 1..Len(call.weights) : NoSharedGram(seg, hypothesis, i)

\* C8: for a hypothesis of fewer than n tokens modified_precision returns
\* 0/1, whatever the references, and raises nothing.
C8_ShortHypothesis ==
    (call.op = "modified_precision" /\ Len(hypothesis) < call.n)
    => call.ret = Return([numerator |-> 0, denominator |-> 1])

\* A hypothesis that is not empty and too short for the order, against a
\* reference long enough for it.
C8_Witness ==
    /\ call.op = "modified_precision"
    /\ call.ret.kind = "ok"
    /\ 0 < Len(hypothesis)
    /\ Len(hypothesis) < call.n
    /\ \E j \in DOMAIN references : Len(references[j]) >= call.n

---------------------------------------------------------------------------
(* Properties of get_information_value and the globals, under Spec.  A     *)
(* step that leaves call' with op "get_information_value" is a lookup of   *)
(* call'.words: every other call writes its own op.                        *)

\* C3: for a reference stream of length L and a 1-gram w that does not
\* occur in it, the value computed for [w] is log2((0.1 + L) / 0.1), which
\* is positive.  The stream is the reference text, the str whose substrings
\* are counted.
C3_UnseenUnigramPositive ==
    [][(/\ call'.op = "get_information_value"
        /\ Len(call'.words) = 1
        /\ reference_data.kind = "str"
        /\ Join(call'.words) \notin DOMAIN info_value
        /\ Occurrences(reference_data.value, call'.words[1]) = 0)
       => /\ call'.ret = Return(Log2Ratio(Len(reference_data.value), 0))
          /\ call'.ret.value.numerator > call'.ret.value.denominator]_vars

\* C9: a lookup made while reference_data is None raises ValueError, also
\* for an n-gram that is in the cache, and changes neither the cache nor
\* reference_data.
C9_NoReferenceRaises ==
    [][(call'.op = "get_information_value" /\ reference_data = None)
       => /\ call'.ret = Raise("ValueError")
          /\ info_value' = info_value
          /\ reference_data' = reference_data]_vars

\* A lookup that failed although its n-gram is in the cache.
C9_Witness ==
    /\ call.op = "get_information_value"
    /\ call.ret = Raise("ValueError")
    /\ Join(call.words) \in DOMAIN info_value

\* C10: no step removes an entry of the cache or changes its value; a
\* lookup of a cached n-gram returns the stored value, whatever the
\* reference is by then; a successful lookup of an uncached n-gram adds its
\* key, with the value it returns, and nothing else.
C10_CacheOnlyGrows ==
    [][/\ \A k \in DOMAIN info_value :
              k \in DOMAIN info_value' /\ info_value'[k] = info_value[k]
       /\ (call'.op = "get_information_value" /\ call'.ret.kind = "ok")
          => LET key == Join(call'.words)
             IN IF key \in DOMAIN info_value
                THEN /\ call'.ret.value = info_value[key]
                     /\ info_value' = info_value
                ELSE /\ DOMAIN info_value' = DOMAIN info_value \cup {key}
                     /\ info_value'[key] = call'.ret.value]_vars

\* A lookup that returned, from a cache of two entries, a value that the
\* reference of the moment does not give.
C10_Witness ==
    /\ call.op = "get_information_value"
    /\ call.ret.kind = "ok"
    /\ reference_data # None
    /\ Cardinality(DOMAIN info_value) > 1
    /\ call.ret.value
           # InfoCount(reference_data, Join(call.words),
                       Join(SubSeq(call.words, 1, Len(call.words) - 1)))

====
